---- MODULE Spec2Model ----
(***************************************************************************)
(* Model of netbox/scripts/netbox_init.py: the incremental population of   *)
(* a NetBox store through its REST client (main, lines 488-902), preceded  *)
(* by the restore of a database dump when one is found (lines 318-486).    *)
(*                                                                         *)
(* The store is the remote collaborator.  Every request the script issues  *)
(* is one step of the model; the store answers "ok", "rejected"            *)
(* (pynetbox.RequestError) or "error" (any other exception, for instance   *)
(* an unreachable store).                                                  *)
(***************************************************************************)
EXTENDS Integers, Sequences, FiniteSets, TLC

\* ------------------------------------------------------------------ bounds
MaxLen == 2      \* longest catalog list given on the command line
MaxRecs == 2     \* longest network map
MaxFaults == 1   \* requests the store rejects or fails to answer, per behaviour
MaxEntries == 3  \* largest mapping handed to the filler rule on its own
MaxIdent == 3    \* largest identifier in such a mapping
MaxCalls == 2    \* calls of the filler rule with one mapping
MaxLegacy == 2   \* prefixes of an older release found in the store
MaxIndent == 1   \* deepest indentation of a line of the recipe template
MaxLines == 2    \* longest recipe template
MaxSwitches == 2 \* changes from one of two concurrent invocations to the other

\* --------------------------------------------------------------- constants
None == 0        \* Python's None where an identifier is expected (ids start at 1)

VARIABLES
    args,          \* the parsed command line
    snapshots,     \* the dump files on disk: name -> modification time
    preloadDatabaseFile,    \* main's local of that name: the dump to load
    preloadDatabaseSuccess, \* main's local of that name
    restoreLog,    \* the restore steps executed in this run, with their results
    service,       \* [running, loaded]: the store's processes and its database
    store,         \* the remote store: one set of records per collection
    nextId,        \* the next identifier the store assigns
    groups, manufacturers, roles, deviceTypes, sites, devices, interfaces,
                   \* main's dictionaries of the same names
    preExisting,   \* the <kind>PreExisting dictionary of the running stage
    todo,          \* the list the running for-loop iterates
    idx,           \* position of that loop in todo
    deviceCreated, \* id of the device the running iteration created
    ipCreated,     \* id of the address the running iteration created
    pc,            \* [stage, step]: where main is
    attempted,     \* stages entered in this run
    stageIds,      \* identifiers present in the store when the running loop began
    lastReq,       \* the request issued last in this run, with the store's answer
    firstRead,     \* outcome of the first read request of this run
    ready,         \* a readiness read has succeeded in this run
    faults,        \* failures injected so far
    rerun,         \* FALSE in the first run, TRUE in the second
    prevKeys,      \* key sets of the store when the first run ended
    prevFaults,    \* failures injected during the first run
    x,             \* the mapping handed to the filler rule on its own
    result,        \* what the rule returned for x
    calls,         \* number of calls made with x
    in_text,       \* generate-recipe: the lines of raspi_master.yaml
    wireless_firmware,      \* generate-recipe: the value put for a scalar placeholder
    extra_root_shell_cmds,  \* generate-recipe: the lines put for a list placeholder
    out_text,      \* generate-recipe: the lines of out_text
    out_file,      \* generate-recipe: the lines written to the target file
    phase,         \* generate-recipe: "read", "replaced", "aligned" or "written"
    other,         \* the locals of a second invocation of main while it is not running
    switches       \* how often the processor went from one invocation to the other

dictVars == <<groups, manufacturers, roles, deviceTypes, sites, devices, interfaces>>
loopVars == <<preExisting, todo, idx, deviceCreated, ipCreated, stageIds>>
runVars == <<rerun, prevKeys, prevFaults>>
fillerVars == <<x, result, calls>>
templateVars == <<in_text, wireless_firmware, extra_root_shell_cmds, out_text, out_file,
                  phase>>
concVars == <<other, switches>>
restoreVars == <<snapshots, preloadDatabaseFile, preloadDatabaseSuccess, restoreLog,
                 service>>
vars == <<args, restoreVars, store, nextId, dictVars, loopVars, pc, attempted, lastReq,
          firstRead, ready, faults, runVars, fillerVars, templateVars, concVars>>

\* ------------------------------------------------------------ pure helpers
\* a key of a JSON object, met where a record of the map was expected
KeyItem(k) == [isDict |-> FALSE, type |-> "", name |-> k, address |-> ""]

\* what a for-loop over get_iterable(netMapJson) visits: a list is iterable and
\* is returned as it is; so is a JSON object, whose iteration yields its keys;
\* a number or a string is wrapped into a tuple of one
get_iterable(v) ==
    IF v.kind = "list" THEN v.items
    ELSE IF v.kind = "object"
         THEN <<KeyItem("type"), KeyItem("name"), KeyItem("address")>>
         ELSE <<v.items[1]>>

IPv4Addresses == {"10.0.0.5", "10.0.0.6"}
IPv6Addresses == {"fe80::1"}
MacAddresses == {"00:11:22:33:44:55"}
OtherAddresses == {"n/a"}
Networks == {"10.0.0.0/8"}

is_ip_v4_address(a) == a \in IPv4Addresses
is_ip_v6_address(a) == a \in IPv6Addresses
is_ip_address(a) == is_ip_v4_address(a) \/ is_ip_v6_address(a)
is_ip_network(a) == a \in Networks
\* a pattern that takes any address that is not an IP address for a MAC address
is_mac_address_loose(a) == a \in MacAddresses \cup OtherAddresses

\* re.match(r'^([0-9a-f]{2}[:-]){5}([0-9a-f]{2})$', address.lower())
is_mac_address(a) == a \in MacAddresses

\* f"{host['address']}/{'32' if is_ip_v4_address(host['address']) else '128'}"
hostKey(a) == IF is_ip_v4_address(a) THEN a \o "/32" ELSE a \o "/128"

\* stable insertion of an item <<key, value>> into a list sorted by value
RECURSIVE InsertByValue(_, _)
InsertByValue(item, s) ==
    IF s = <<>> THEN <<item>>
    ELSE IF item[2] < Head(s)[2] THEN <<item>> \o s
         ELSE <<Head(s)>> \o InsertByValue(item, Tail(s))

\* sorted(x.items(), key=lambda item: item[1])
RECURSIVE SortedByValue(_)
SortedByValue(items) ==
    IF items = <<>> THEN <<>>
    ELSE InsertByValue(items[Len(items)], SortedByValue(SubSeq(items, 1, Len(items) - 1)))

\* the rule without its sort: the value inserted first
min_hash_value_unsorted(items) ==
    IF items = <<>> THEN None ELSE items[1][2]

\* next(iter(list({...sorted...}.values())), None)
min_hash_value_by_value(items) ==
    LET s == SortedByValue(items) IN
    IF s = <<>> THEN None ELSE s[1][2]

\* the items of a dictionary of records, each record standing by its id
RECURSIVE IdItems(_)
IdItems(d) ==
    IF DOMAIN d = {} THEN <<>>
    ELSE LET k == CHOOSE k \in DOMAIN d : TRUE
             rest == [j \in DOMAIN d \ {k} |-> d[j]]
         IN <<<<k, d[k].id>>>> \o IdItems(rest)

\* "<record>.id if <record> else None" of the record the filler rule picks
FillerId(d) == min_hash_value_by_value(IdItems(d))

\* ---------------------------------------------------------------- the store
Collections == {"groups", "permissions", "manufacturers", "roles", "deviceTypes",
                "sites", "prefixes", "devices", "interfaces", "ipAddresses"}

\* the attribute the script indexes a collection by
KeyOf(coll, r) ==
    CASE coll = "deviceTypes" -> r.model
      [] coll = "prefixes" -> r.prefix
      [] coll = "ipAddresses" -> r.address
      [] coll = "interfaces" -> r.device
      [] OTHER -> r.name

Keys(coll) == {KeyOf(coll, r) : r \in store[coll]}

\* {x.<key>: x for x in nb.<collection>.all()}: a later record replaces an
\* earlier one with the same key
Index(coll) ==
    [k \in Keys(coll) |->
        CHOOSE r \in store[coll] :
            /\ KeyOf(coll, r) = k
            /\ \A q \in store[coll] : KeyOf(coll, q) = k => q.id <= r.id]

AllIds == UNION {{r.id : r \in store[c]} : c \in Collections}

EmptyStore == [c \in Collections |-> {}]

NoRefs == [site |-> None, device_type |-> None, role |-> None, manufacturer |-> None,
           device |-> None, groups |-> {}]

\* n numbers the requests of a run; readiness reads all carry number 1;
\* accepted tells that the store answered every request of the run with success
NoReq == [coll |-> "", op |-> "none", key |-> "", refs |-> NoRefs, out |-> "", n |-> 0,
          accepted |-> TRUE]

\* the store answers requests while its processes run on a loaded database
Serving == service.running /\ service.database = "loaded"

\* answers of the store to a list request
ListOutcomes ==
    IF ~Serving THEN {"error"}
    ELSE {"ok"} \cup (IF faults < MaxFaults THEN {"error"} ELSE {})

\* a store that accepts a create whatever it holds
CreateOutcomesNoUniqueness(coll, key) ==
    IF ~Serving THEN {"error"}
    ELSE {"ok"} \cup (IF faults < MaxFaults THEN {"rejected", "error"} ELSE {})

\* answers of the store to a create request: identity keys are unique within
\* the store, a create with a key that is present is refused as a duplicate
CreateOutcomes(coll, key) ==
    IF ~Serving THEN {"error"}
    ELSE (IF key \in Keys(coll) THEN {"duplicate"} ELSE {"ok"})
         \cup (IF faults < MaxFaults THEN {"rejected", "error"} ELSE {})

\* answers of the store to an update request
UpdateOutcomes ==
    IF ~Serving THEN {"error"}
    ELSE {"ok"} \cup (IF faults < MaxFaults THEN {"rejected", "error"} ELSE {})

\* pynetbox.RequestError
IsRequestError(out) == out \in {"rejected", "duplicate"}

\* the request goes out and the store answers
Sent(coll, op, key, refs, out) ==
    /\ lastReq' = [coll |-> coll, op |-> op, key |-> key, refs |-> refs, out |-> out,
                   n |-> lastReq.n + 1, accepted |-> lastReq.accepted /\ out = "ok"]
    /\ firstRead' = IF firstRead = "none" /\ op = "list"
                    THEN (IF out = "ok" THEN "ok" ELSE "failed")
                    ELSE firstRead
    /\ faults' = IF out \in {"rejected", "error"} /\ Serving THEN faults + 1 ELSE faults

\* -------------------------------------------------------------- the stages
\* the sites stage moved behind the network map
StagesSitesLate ==
    <<"groups", "permissions", "manufacturers", "roles", "deviceTypes", "netMap",
      "sites", "migration", "initializers", "library">>

Stages == <<"groups", "permissions", "manufacturers", "roles", "deviceTypes", "sites",
            "netMap", "migration", "initializers", "library">>

FirstStep(s) ==
    CASE s = "permissions" -> "contentTypes"
      [] s = "netMap" -> "load"
      [] s = "migration" -> "filter"
      [] s \in {"initializers", "library"} -> "run"
      [] OTHER -> "list"

StageNo(s) == CHOOSE i \in 1..Len(Stages) : Stages[i] = s

Done == [stage |-> "done", step |-> "done"]

\* the first statement of main after the argument parser (line 320)
Start == [stage |-> "preload", step |-> "select"]

\* main returned without entering the block of line 488
Skipped == [stage |-> "skipped", step |-> "done"]

At(s, step) == pc = [stage |-> s, step |-> step]

\* control reaches the statement after the try of stage s
EnterNext(s) ==
    IF StageNo(s) = Len(Stages)
    THEN pc' = Done /\ UNCHANGED attempted
    ELSE LET n == Stages[StageNo(s) + 1] IN
         /\ pc' = [stage |-> n, step |-> FirstStep(n)]
         /\ attempted' = attempted \cup {n}

\* an exception leaves the script instead of being caught at the stage boundary
StageAbortedEndsRun(s) == pc' = Done /\ UNCHANGED attempted

\* "except Exception as e: logging.error(...)" of stage s
StageAborted(s) == EnterNext(s)

\* stage s ran to the end of its try
StageDone(s) == EnterNext(s)

Goto(s, step) == pc' = [stage |-> s, step |-> step] /\ UNCHANGED attempted

\* one item of a creation loop was refused: the stage is given up with it
ItemRejectedAbortsStage(s) == StageAborted(s) /\ UNCHANGED idx

\* "except pynetbox.RequestError as nbe: logging.warning(...)" inside a
\* creation loop of stage s: the loop goes on with the next item
ItemRejected(s) == idx' = idx + 1 /\ UNCHANGED <<pc, attempted>>

\* ------------------------------------------------------------------ inputs
GroupNames == {"administrator", "standard"}
ManufacturerNames == {"Unspecified", "Acme"}
RoleNames == {"Unspecified", "Sensor"}
DeviceTypeNames == {"Unspecified", "Model-X"}
SiteNames == {"default", "HQ"}

ArgLists(S) == UNION {[1..n -> S] : n \in 0..MaxLen}

Segment(n, a) == [isDict |-> TRUE, type |-> "segment", name |-> n, address |-> a]
Host(n, a) == [isDict |-> TRUE, type |-> "host", name |-> n, address |-> a]

MapRecords ==
    {Segment("seg1", "10.0.0.0/8"),
     Host("h1", "10.0.0.5"), Host("h1", "10.0.0.6"), Host("h2", "10.0.0.5"),
     Host("h2", "fe80::1"), Host("h2", "00:11:22:33:44:55"), Host("h2", "n/a"),
     KeyItem("junk")}

NoMap == [present |-> FALSE, kind |-> "list", items |-> <<>>]

\* what json.load can return: a list of records, one object, a number or string
NetMaps ==
    {[present |-> TRUE, kind |-> "list", items |-> m] :
        m \in UNION {[1..n -> MapRecords] : n \in 0..MaxRecs}}
    \cup {[present |-> TRUE, kind |-> "object", items |-> <<r>>] :
            r \in {r \in MapRecords : r.isDict}}
    \cup {[present |-> TRUE, kind |-> "scalar", items |-> <<KeyItem("42")>>]}

\* the defaults of the argument parser
DefaultArgs ==
    [wait |-> TRUE,
     staffGroupName |-> "administrator",
     defaultGroupName |-> "standard",
     manufacturers |-> <<"Unspecified">>,
     roles |-> <<"Unspecified">>,
     deviceTypes |-> <<"Unspecified">>,
     netboxSites |-> <<"default">>,
     netMap |-> NoMap,
     preloadBackupFile |-> ""]

\* command lines: the defaults with one argument varied at a time
Inputs ==
    {[DefaultArgs EXCEPT !.wait = w] : w \in BOOLEAN}
    \cup {[DefaultArgs EXCEPT !.staffGroupName = g] : g \in GroupNames}
    \cup {[DefaultArgs EXCEPT !.manufacturers = l] : l \in ArgLists(ManufacturerNames)}
    \cup {[DefaultArgs EXCEPT !.roles = l] : l \in ArgLists(RoleNames)}
    \cup {[DefaultArgs EXCEPT !.deviceTypes = l] : l \in ArgLists(DeviceTypeNames)}
    \cup {[DefaultArgs EXCEPT !.netboxSites = l] : l \in ArgLists(SiteNames)}
    \cup {[DefaultArgs EXCEPT !.netMap = m] : m \in NetMaps}
    \cup {[DefaultArgs EXCEPT !.preloadBackupFile = "given.gz"]}

\* the dump files that may lie in the preload directory, and the dump named by
\* --preload-backup, which lies elsewhere
PreloadDirFiles == {"old.gz", "new.gz", "old.media.tar.gz", "new.media.tar.gz"}
FileNames == PreloadDirFiles \cup {"given.gz", "given.media.tar.gz"}

\* os.path.getmtime
getmtime(f) ==
    CASE f = "old.media.tar.gz" -> 1
      [] f = "old.gz" -> 2
      [] f = "new.gz" -> 3
      [] f = "new.media.tar.gz" -> 4
      [] OTHER -> 5

\* the files a run can find: dumps are looked for next to the default command
\* line and next to --preload-backup
FileSystems(a) ==
    IF a = DefaultArgs THEN SUBSET {"old.gz", "new.gz", "old.media.tar.gz"}
    ELSE IF a.preloadBackupFile # ""
         THEN {{}, {"old.gz"}, {"given.gz"}, {"given.gz", "given.media.tar.gz"},
               {"given.gz", "old.gz", "new.gz"}}
         ELSE {{}}

\* prefixes written by a release that named subnets by VRF: no description
LegacyPrefixes == <<"10.0.0.0/8", "172.16.0.0/12", "192.168.0.0/16">>

LegacyStore(k) ==
    [EmptyStore EXCEPT !["prefixes"] =
        {[id |-> i, prefix |-> LegacyPrefixes[i], site |-> None, description |-> "",
          vrf |-> "vrf-" \o LegacyPrefixes[i]] : i \in 1..k}]

\* the stores a first run can find: empty, or left by an older release
InitialStores(a) ==
    {EmptyStore} \cup
    (IF a.wait /\ a.netMap.present /\ Len(a.netMap.items) <= 1
        /\ [a EXCEPT !.netMap = NoMap] = DefaultArgs
     THEN {LegacyStore(k) : k \in 1..MaxLegacy} ELSE {})

\* where main is once the connection object exists: "while args.wait:"
StartPc(a) ==
    IF a.wait THEN [stage |-> "poll", step |-> "list"]
    ELSE [stage |-> "groups", step |-> "list"]

StartAttempted(a) == IF a.wait THEN {} ELSE {"groups"}

KeySets == [c \in Collections |-> Keys(c)]

\* the locals of main before the first stage (lines 495-504)
FreshLocals ==
    /\ groups = <<>> /\ manufacturers = <<>> /\ roles = <<>> /\ deviceTypes = <<>>
    /\ sites = <<>> /\ devices = <<>> /\ interfaces = <<>>
    /\ preExisting = <<>> /\ todo = <<>> /\ idx = 1
    /\ deviceCreated = None /\ ipCreated = None /\ stageIds = {}

IdleFiller == x = <<>> /\ result = None /\ calls = 0

\* ------------------------------------------- generate-recipe.py: the recipe
\* A text is the list of its lines, a line the list of its characters.  "P"
\* stands for a placeholder that str.replace fills (__WIRELESS_FIRMWARE__),
\* "L" for one that align_replace fills (__EXTRA_ROOT_SHELL_CMDS__).
Spaces(n) == [i \in 1..n |-> " "]

\* what follows the indentation on a line of raspi_master.yaml
Bodies ==
    {<<>>, <<"-">>, <<"-", " ">>, <<"a">>, <<"-", " ", "a">>, <<"P">>,
     <<"-", " ", "P">>, <<"L">>}

TemplateLines == {Spaces(n) \o b : n \in 0..MaxIndent, b \in Bodies}

Documents == UNION {[1..n -> TemplateLines] : n \in 0..MaxLines}

\* wireless_firmware is '' for version 2 and a package name otherwise
ScalarValues == {<<>>, <<"a">>}

\* the lists handed to align_replace; backports_stanza.splitlines() begins
\* with an empty line
ListValues == {<<>>, <<<<>>, <<"a">>>>, <<<<"a">>, <<"a">>>>}

\* line.replace('__WIRELESS_FIRMWARE__', value)
RECURSIVE replace(_, _)
replace(line, value) ==
    IF line = <<>> THEN <<>>
    ELSE (IF Head(line) = "P" THEN value ELSE <<Head(line)>>) \o replace(Tail(line), value)

\* the length of the longest prefix of the line that \s+ can take
RECURSIVE LeadingSpaces(_)
LeadingSpaces(line) ==
    IF line = <<>> \/ Head(line) # " " THEN 0 ELSE 1 + LeadingSpaces(Tail(line))

\* re.match(r'^(\s+)%s' % pattern, line)
MatchesPattern(line) ==
    LET k == LeadingSpaces(line) IN k >= 1 /\ Len(line) > k /\ line[k + 1] = "L"

\* align_replace(text, pattern, replacement): the first matching line gives way
\* to the lines of the replacement, each behind the indentation of the match
align_replace(lines, replacement) ==
    LET hits == {i \in 1..Len(lines) : MatchesPattern(lines[i])} IN
    IF hits = {} THEN lines
    ELSE LET i == CHOOSE i \in hits : \A j \in hits : i <= j
             indent == Spaces(LeadingSpaces(lines[i]))
         IN SubSeq(lines, 1, i - 1)
            \o [j \in 1..Len(replacement) |-> indent \o replacement[j]]
            \o SubSeq(lines, i + 1, Len(lines))

\* re.match(r'^\s+$', x)
IsBlankLine(line) == Len(line) >= 1 /\ LeadingSpaces(line) = Len(line)

\* a filter that keeps list-item lines whatever they hold
IsEmptyListItemNever(line) == FALSE

\* re.match(r'^\s+-\s*$', x)
IsEmptyListItem(line) ==
    LET k == LeadingSpaces(line) IN
    /\ k >= 1 /\ Len(line) > k /\ line[k + 1] = "-"
    /\ \A i \in (k + 2)..Len(line) : line[i] = " "

\* "[x for x in out_text.splitlines() if not ... and not ...]"
KeepLine(line) == ~IsBlankLine(line) /\ ~IsEmptyListItem(line)

\* the lines of the text '\n'.join(filtered) + "\n"
Joined(filtered) == IF filtered = <<>> THEN <<<<>>>> ELSE filtered

IdleTemplate ==
    /\ in_text = <<>> /\ wireless_firmware = <<>> /\ extra_root_shell_cmds = <<>>
    /\ out_text = <<>> /\ out_file = <<>> /\ phase = "idle"

\* one invocation of main only
IdleConcurrent == other = <<>> /\ switches = 0

Init ==
    /\ args \in Inputs
    /\ snapshots \in FileSystems(args)
    /\ preloadDatabaseFile = ""
    /\ preloadDatabaseSuccess = FALSE
    /\ restoreLog = <<>>
    /\ service = [running |-> TRUE, database |-> "loaded"]
    /\ store \in InitialStores(args)
    /\ nextId = Cardinality(AllIds) + 1
    /\ FreshLocals
    /\ pc = Start
    /\ attempted = {}
    /\ lastReq = NoReq
    /\ firstRead = "none"
    /\ ready = FALSE
    /\ faults = 0
    /\ rerun = FALSE
    /\ prevKeys = [c \in Collections |-> {}]
    /\ prevFaults = 0
    /\ IdleFiller
    /\ IdleTemplate
    /\ IdleConcurrent

\* ------------------------------------------------- restore of a database dump
\* os.path.isfile
isfile(f) == f \in snapshots

\* x.endswith('.media.tar.gz')
IsMediaArchive(f) == f \in {"old.media.tar.gz", "new.media.tar.gz", "given.media.tar.gz"}

\* os.path.splitext(preloadDatabaseFile)[0] + ".media.tar.gz"
mediaFileName(f) ==
    CASE f = "old.gz" -> "old.media.tar.gz"
      [] f = "new.gz" -> "new.media.tar.gz"
      [] f = "given.gz" -> "given.media.tar.gz"
      [] OTHER -> ""

\* glob.glob(os.path.join(args.preloadDir, '*.gz')), each file with its mtime
RECURSIVE Globbed(_)
Globbed(S) ==
    IF S = {} THEN <<>>
    ELSE LET f == CHOOSE f \in S : TRUE IN <<<<f, getmtime(f)>>>> \o Globbed(S \ {f})

\* the list comprehension of lines 323-327, then preloadFiles.sort(key=getmtime)
preloadFiles ==
    SortedByValue(Globbed({f \in PreloadDirFiles \cap snapshots : ~IsMediaArchive(f)}))

\* next(iter(preloadFiles), '')
FirstPreloadFile == IF preloadFiles = <<>> THEN "" ELSE preloadFiles[1][1]

\* the contents of a dump: a store written by a release that named subnets by VRF
SnapshotStore == LegacyStore(1)

RestoreSteps == <<"stop", "dropdb", "createdb", "grant", "load", "vrf", "truncate",
                  "start", "migrate", "superuser", "media">>

StepNo(step) == CHOOSE i \in 1..Len(RestoreSteps) : RestoreSteps[i] = step

\* the block of line 488 entered whatever the restore did
ReconcileRegardless(success) ==
    pc' = StartPc(args) /\ attempted' = StartAttempted(args)

\* "if not preloadDatabaseSuccess and (not args.preloadBackupFile):" (line 488)
ReconcileOrLeave(success) ==
    IF ~success /\ args.preloadBackupFile = ""
    THEN pc' = StartPc(args) /\ attempted' = StartAttempted(args)
    ELSE pc' = Skipped /\ UNCHANGED attempted

\* lines 320-331: the dump named on the command line, else the first of the
\* directory's dumps in the order of the sort
PreloadSelect ==
    /\ pc = Start
    /\ LET file == IF ~isfile(args.preloadBackupFile) THEN FirstPreloadFile
                   ELSE args.preloadBackupFile
       IN /\ preloadDatabaseFile' = file
          /\ IF isfile(file)
             THEN pc' = [stage |-> "preload", step |-> "stop"] /\ UNCHANGED attempted
             ELSE ReconcileOrLeave(FALSE)
    /\ UNCHANGED <<args, snapshots, preloadDatabaseSuccess, restoreLog, service, store,
                   nextId, dictVars, loopVars, lastReq, firstRead, ready, faults,
                   runVars, fillerVars, templateVars, concVars>>

\* the step ran and its result was looked at
Logged(step, out) == restoreLog' = Append(restoreLog, <<step, out>>)

\* control goes to the statement after the step's "if err != 0: logging.error"
StepOver(step) ==
    IF StepNo(step) = Len(RestoreSteps)
    THEN ReconcileOrLeave(preloadDatabaseSuccess)
    ELSE pc' = [stage |-> "preload", step |-> RestoreSteps[StepNo(step) + 1]]
         /\ UNCHANGED attempted

\* "except Exception as e: logging.error(...restoring...)" (line 483)
RestoreAborted == ReconcileOrLeave(preloadDatabaseSuccess)

\* a failed createdb is logged like the failure of any other step
CreateFailureLogged(step) == StepOver(step)

\* "raise Exception(f'Error {err} creating new NetBox database: ...')" (line 373)
CreateFailed(step) == RestoreAborted

restoreUnchanged == <<args, snapshots, preloadDatabaseFile, dictVars, loopVars, lastReq,
                      firstRead, ready, faults, runVars, fillerVars, templateVars, concVars>>

\* "supervisorctl status netbox:* | ... | xargs ... supervisorctl stop" (338-346)
StopServices ==
    /\ At("preload", "stop")
    /\ \E out \in {"ok", "failed"} :
        /\ Logged("stop", out)
        /\ service' = IF out = "ok" THEN [service EXCEPT !.running = FALSE] ELSE service
        /\ StepOver("stop")
    /\ UNCHANGED <<preloadDatabaseSuccess, store, nextId, restoreUnchanged>>

\* "dropdb -h ... -f <db>": a failure is a warning (348-360)
DropDatabase ==
    /\ At("preload", "dropdb")
    /\ \E out \in (IF service.database = "absent" THEN {"failed"} ELSE {"ok", "failed"}) :
        /\ Logged("dropdb", out)
        /\ IF out = "ok"
           THEN /\ service' = [service EXCEPT !.database = "absent"]
                /\ store' = EmptyStore
                /\ nextId' = 1
           ELSE UNCHANGED <<service, store, nextId>>
        /\ StepOver("dropdb")
    /\ UNCHANGED <<preloadDatabaseSuccess, restoreUnchanged>>

\* "createdb -h ... <db>": refused while the database exists (362-373)
CreateDatabase ==
    /\ At("preload", "createdb")
    /\ \E out \in (IF service.database = "absent" THEN {"ok", "failed"} ELSE {"failed"}) :
        /\ Logged("createdb", out)
        /\ service' = IF out = "ok" THEN [service EXCEPT !.database = "empty"] ELSE service
        /\ IF out = "ok" THEN StepOver("createdb") ELSE CreateFailed("createdb")
    /\ UNCHANGED <<preloadDatabaseSuccess, store, nextId, restoreUnchanged>>

\* "psql ... -c 'GRANT ALL PRIVILEGES ON DATABASE ...'" (375-387)
GrantPrivileges ==
    /\ At("preload", "grant")
    /\ \E out \in {"ok", "failed"} :
        /\ Logged("grant", out)
        /\ StepOver("grant")
    /\ UNCHANGED <<preloadDatabaseSuccess, service, store, nextId, restoreUnchanged>>

\* "psql" fed with the dump; "if (err == 0) and results: preloadDatabaseSuccess
\* = True else: raise Exception(...)" (389-406)
LoadDump ==
    /\ At("preload", "load")
    /\ \E out \in {"ok", "failed"} :
        /\ Logged("load", out)
        /\ preloadDatabaseSuccess' = (out = "ok")
        /\ IF out = "ok"
           THEN /\ service' = [service EXCEPT !.database = "loaded"]
                /\ store' = SnapshotStore
                /\ nextId' = Cardinality(SnapshotStore["prefixes"]) + 1
                /\ StepOver("load")
           ELSE /\ UNCHANGED <<service, store, nextId>>
                /\ RestoreAborted
    /\ UNCHANGED restoreUnchanged

\* "psql -h <host> -U {args.postgresUser} -c 'UPDATE ipam_prefix ...'": the
\* braces make the user argument a set, which no process can be started with;
\* run_process reports that as a failure or lets the exception through (408-421)
MigrateVrfNames ==
    /\ At("preload", "vrf")
    /\ \E out \in {"failed", "raised"} :
        /\ Logged("vrf", out)
        /\ IF out = "raised" THEN RestoreAborted ELSE StepOver("vrf")
    /\ UNCHANGED <<preloadDatabaseSuccess, service, store, nextId, restoreUnchanged>>

\* "psql -h <host> -U {args.postgresUser} -c 'TRUNCATE auth_user CASCADE'" (423-435)
TruncateUsers ==
    /\ At("preload", "truncate")
    /\ \E out \in {"failed", "raised"} :
        /\ Logged("truncate", out)
        /\ IF out = "raised" THEN RestoreAborted ELSE StepOver("truncate")
    /\ UNCHANGED <<preloadDatabaseSuccess, service, store, nextId, restoreUnchanged>>

\* "supervisorctl status netbox:* | ... | xargs ... supervisorctl start" (437-445)
StartServices ==
    /\ At("preload", "start")
    /\ \E out \in {"ok", "failed"} :
        /\ Logged("start", out)
        /\ service' = IF out = "ok" THEN [service EXCEPT !.running = TRUE] ELSE service
        /\ StepOver("start")
    /\ UNCHANGED <<preloadDatabaseSuccess, store, nextId, restoreUnchanged>>

\* "manage.py migrate" (449-456)
RunMigrations ==
    /\ At("preload", "migrate")
    /\ \E out \in {"ok", "failed"} :
        /\ Logged("migrate", out)
        /\ StepOver("migrate")
    /\ UNCHANGED <<preloadDatabaseSuccess, service, store, nextId, restoreUnchanged>>

\* "manage.py shell" fed with netbox_superuser_create.py (458-469)
CreateSuperuser ==
    /\ At("preload", "superuser")
    /\ \E out \in {"ok", "failed"} :
        /\ Logged("superuser", out)
        /\ StepOver("superuser")
    /\ UNCHANGED <<preloadDatabaseSuccess, service, store, nextId, restoreUnchanged>>

\* "if os.path.isfile(mediaFileName) and os.path.isdir(mediaPath): try: ...
\* except Exception" (471-481)
RestoreMedia ==
    /\ At("preload", "media")
    /\ \E isdir \in BOOLEAN, out \in {"ok", "failed"} :
        /\ IF isfile(mediaFileName(preloadDatabaseFile)) /\ isdir
           THEN Logged("media", out)
           ELSE UNCHANGED restoreLog
        /\ StepOver("media")
    /\ UNCHANGED <<preloadDatabaseSuccess, service, store, nextId, restoreUnchanged>>

\* ------------------------------------------------------ connection readiness
\* the readiness read failed: main goes on without the store having answered
PollFailedGivesUp == pc' = [stage |-> "groups", step |-> "list"] /\ attempted' = {"groups"}

\* "except Exception: ... time.sleep(5)": back to the head of the loop
PollFailed == UNCHANGED <<pc, attempted>>

\* "[x.name for x in nb.dcim.sites.all()]; break"
PollSucceeded == pc' = [stage |-> "groups", step |-> "list"] /\ attempted' = {"groups"}

\* one turn of "while args.wait:"
WaitForConnection ==
    /\ At("poll", "list")
    /\ \E out \in (IF Serving THEN {"ok", "error"} ELSE {"error"}) :
        /\ lastReq' = [coll |-> "sites", op |-> "poll", key |-> "", refs |-> NoRefs,
                       out |-> out, n |-> 1, accepted |-> TRUE]
        /\ firstRead' = IF firstRead = "none"
                        THEN (IF out = "ok" THEN "ok" ELSE "failed") ELSE firstRead
        /\ ready' = (out = "ok")
        /\ IF out = "ok" THEN PollSucceeded ELSE PollFailed
    /\ UNCHANGED <<args, restoreVars, store, nextId, dictVars, loopVars, faults, runVars, fillerVars, templateVars, concVars>>

\* ------------------------------------------------- the catalog stages, shared
\* "<kind>PreExisting = {...all()}" and the list the creation loop iterates
ListStep(s, coll, requested, out) ==
    /\ At(s, "list")
    /\ out \in ListOutcomes
    /\ Sent(coll, "list", "", NoRefs, out)
    /\ IF out = "ok"
       THEN LET Missing(n) == n \notin Keys(coll) IN
            /\ preExisting' = Index(coll)
            /\ todo' = SelectSeq(requested, Missing)
            /\ idx' = 1
            /\ stageIds' = AllIds
            /\ Goto(s, "create")
       ELSE /\ StageAborted(s)
            /\ UNCHANGED <<preExisting, todo, idx, stageIds>>
    /\ UNCHANGED <<args, restoreVars, store, nextId, dictVars, deviceCreated, ipCreated, ready,
                   runVars, fillerVars, templateVars, concVars>>

\* one iteration of a creation loop: "try: nb.<collection>.create({...})"
CreateStep(s, coll, key, refs, rec, out) ==
    /\ At(s, "create")
    /\ idx <= Len(todo)
    /\ out \in CreateOutcomes(coll, key)
    /\ Sent(coll, "create", key, refs, out)
    /\ IF out = "ok"
       THEN /\ store' = [store EXCEPT ![coll] = @ \cup {rec}]
            /\ nextId' = nextId + 1
            /\ idx' = idx + 1
            /\ UNCHANGED <<pc, attempted>>
       ELSE /\ UNCHANGED <<store, nextId>>
            /\ IF IsRequestError(out) THEN ItemRejected(s)
               ELSE StageAborted(s) /\ UNCHANGED idx
    /\ UNCHANGED <<args, restoreVars, dictVars, preExisting, todo, deviceCreated, ipCreated, stageIds,
                   ready, runVars, fillerVars, templateVars, concVars>>

\* the re-fetch after the loop; the caller assigns the dictionary
RefetchStep(s, coll, out) ==
    /\ At(s, "create")
    /\ idx > Len(todo)
    /\ out \in ListOutcomes
    /\ Sent(coll, "list", "", NoRefs, out)
    /\ IF out = "ok" THEN StageDone(s) ELSE StageAborted(s)
    /\ UNCHANGED <<args, restoreVars, store, nextId, loopVars, ready, runVars, fillerVars, templateVars, concVars>>

Fetched(coll, out, old) == IF out = "ok" THEN Index(coll) ELSE old

\* ------------------------------------------------------------------- groups
DEFAULT_GROUP_NAMES == <<args.staffGroupName, args.defaultGroupName>>

GroupsList == \E out \in {"ok", "error"} :
    ListStep("groups", "groups", DEFAULT_GROUP_NAMES, out)

GroupsCreate == \E out \in {"ok", "rejected", "duplicate", "error"} :
    CreateStep("groups", "groups", todo[idx], NoRefs,
               [id |-> nextId, name |-> todo[idx]], out)

GroupsRefetch == \E out \in {"ok", "error"} :
    /\ RefetchStep("groups", "groups", out)
    /\ groups' = Fetched("groups", out, groups)
    /\ UNCHANGED <<manufacturers, roles, deviceTypes, sites, devices, interfaces>>

\* -------------------------------------------------------------- permissions
PermissionName(g) == g \o "_permission"

\* the dictionary literal: a second entry with the same key replaces the value
\* of the first and keeps its place
DEFAULT_PERMISSIONS ==
    IF args.staffGroupName = args.defaultGroupName
    THEN <<[name |-> PermissionName(args.defaultGroupName), groups |-> args.defaultGroupName]>>
    ELSE <<[name |-> PermissionName(args.staffGroupName), groups |-> args.staffGroupName],
           [name |-> PermissionName(args.defaultGroupName), groups |-> args.defaultGroupName]>>

\* "allContentTypeNames = [... for x in nb.extras.content_types.all()]"
PermissionsContentTypes == \E out \in ListOutcomes :
    /\ At("permissions", "contentTypes")
    /\ Sent("contentTypes", "list", "", NoRefs, out)
    /\ IF out = "ok" THEN Goto("permissions", "list") ELSE StageAborted("permissions")
    /\ UNCHANGED <<args, restoreVars, store, nextId, dictVars, loopVars, ready, runVars, fillerVars, templateVars, concVars>>

PermissionsList == \E out \in ListOutcomes :
    /\ At("permissions", "list")
    /\ Sent("permissions", "list", "", NoRefs, out)
    /\ IF out = "ok"
       THEN LET Missing(p) == p.name \notin Keys("permissions") IN
            /\ preExisting' = Index("permissions")
            /\ todo' = SelectSeq(DEFAULT_PERMISSIONS, Missing)
            /\ idx' = 1
            /\ stageIds' = AllIds
            /\ Goto("permissions", "create")
       ELSE /\ StageAborted("permissions")
            /\ UNCHANGED <<preExisting, todo, idx, stageIds>>
    /\ UNCHANGED <<args, restoreVars, store, nextId, dictVars, deviceCreated, ipCreated, ready,
                   runVars, fillerVars, templateVars, concVars>>

\* "permConfig['groups'] = [groups[x].id for x in permConfig['groups']]" stands
\* before the inner try: a group missing from the dictionary is a KeyError
PermissionsCreate ==
    /\ At("permissions", "create")
    /\ idx <= Len(todo)
    /\ IF todo[idx].groups \notin DOMAIN groups
       THEN /\ StageAborted("permissions")
            /\ UNCHANGED <<args, restoreVars, store, nextId, dictVars, loopVars, lastReq, firstRead,
                           faults, ready, runVars, fillerVars, templateVars, concVars>>
       ELSE \E out \in {"ok", "rejected", "duplicate", "error"} :
            LET gids == {groups[todo[idx].groups].id} IN
            CreateStep("permissions", "permissions", todo[idx].name,
                       [NoRefs EXCEPT !.groups = gids],
                       [id |-> nextId, name |-> todo[idx].name, groups |-> gids], out)

PermissionsRefetch == \E out \in {"ok", "error"} :
    /\ RefetchStep("permissions", "permissions", out)
    /\ UNCHANGED dictVars

\* ------------------------------------------------------------ manufacturers
ManufacturersList == \E out \in {"ok", "error"} :
    ListStep("manufacturers", "manufacturers", args.manufacturers, out)

ManufacturersCreate == \E out \in {"ok", "rejected", "duplicate", "error"} :
    CreateStep("manufacturers", "manufacturers", todo[idx], NoRefs,
               [id |-> nextId, name |-> todo[idx]], out)

ManufacturersRefetch == \E out \in {"ok", "error"} :
    /\ RefetchStep("manufacturers", "manufacturers", out)
    /\ manufacturers' = Fetched("manufacturers", out, manufacturers)
    /\ UNCHANGED <<groups, roles, deviceTypes, sites, devices, interfaces>>

\* -------------------------------------------------------------------- roles
RolesList == \E out \in {"ok", "error"} :
    ListStep("roles", "roles", args.roles, out)

RolesCreate == \E out \in {"ok", "rejected", "duplicate", "error"} :
    CreateStep("roles", "roles", todo[idx], NoRefs,
               [id |-> nextId, name |-> todo[idx]], out)

RolesRefetch == \E out \in {"ok", "error"} :
    /\ RefetchStep("roles", "roles", out)
    /\ roles' = Fetched("roles", out, roles)
    /\ UNCHANGED <<groups, manufacturers, deviceTypes, sites, devices, interfaces>>

\* ------------------------------------------------------------- device types
\* the references a device type is created with
DeviceTypeRefs == [NoRefs EXCEPT !.manufacturer = FillerId(manufacturers)]

DeviceTypesList == \E out \in {"ok", "error"} :
    ListStep("deviceTypes", "deviceTypes", args.deviceTypes, out)

DeviceTypesCreate == \E out \in {"ok", "rejected", "duplicate", "error"} :
    CreateStep("deviceTypes", "deviceTypes", todo[idx], DeviceTypeRefs,
               [id |-> nextId, model |-> todo[idx],
                manufacturer |-> DeviceTypeRefs.manufacturer], out)

DeviceTypesRefetch == \E out \in {"ok", "error"} :
    /\ RefetchStep("deviceTypes", "deviceTypes", out)
    /\ deviceTypes' = Fetched("deviceTypes", out, deviceTypes)
    /\ UNCHANGED <<groups, manufacturers, roles, sites, devices, interfaces>>

\* -------------------------------------------------------------------- sites
SitesList == \E out \in {"ok", "error"} :
    ListStep("sites", "sites", args.netboxSites, out)

SitesCreate == \E out \in {"ok", "rejected", "duplicate", "error"} :
    CreateStep("sites", "sites", todo[idx], NoRefs,
               [id |-> nextId, name |-> todo[idx]], out)

SitesRefetch == \E out \in {"ok", "error"} :
    /\ RefetchStep("sites", "sites", out)
    /\ sites' = Fetched("sites", out, sites)
    /\ UNCHANGED <<groups, manufacturers, roles, deviceTypes, devices, interfaces>>

\* -------------------------------------------------------------- network map
netMapJson == args.netMap

IsSegment(r) ==
    r.isDict /\ r.type = "segment" /\ r.name # "" /\ is_ip_network(r.address)

IsHost(r) == r.isDict /\ r.type = "host" /\ r.name # ""

\* the references a prefix is created with
PrefixRefs == [NoRefs EXCEPT !.site = FillerId(sites)]

\* a device type's identifier where the site's was meant
DeviceRefsMixedUp ==
    [NoRefs EXCEPT !.site = FillerId(deviceTypes),
                   !.device_type = FillerId(deviceTypes),
                   !.role = FillerId(roles)]

\* the references a device is created with
DeviceRefs ==
    [NoRefs EXCEPT !.site = FillerId(sites),
                   !.device_type = FillerId(deviceTypes),
                   !.role = FillerId(roles)]

netMapUnchanged == <<args, restoreVars, dictVars, ready, runVars, fillerVars, templateVars, concVars>>

\* "if args.netMapFileName is not None and os.path.isfile(...)": without a map
\* the stage issues no request
NetMapLoad ==
    /\ At("netMap", "load")
    /\ IF netMapJson.present THEN Goto("netMap", "prefix_list") ELSE StageDone("netMap")
    /\ UNCHANGED <<args, restoreVars, store, nextId, dictVars, loopVars, lastReq, firstRead, faults,
                   ready, runVars, fillerVars, templateVars, concVars>>

\* prefixesPreExisting is fetched; the loop takes every segment of the map
PrefixesList == \E out \in ListOutcomes :
    /\ At("netMap", "prefix_list")
    /\ Sent("prefixes", "list", "", NoRefs, out)
    /\ IF out = "ok"
       THEN /\ preExisting' = Index("prefixes")
            /\ todo' = SelectSeq(get_iterable(netMapJson), IsSegment)
            /\ idx' = 1
            /\ stageIds' = AllIds
            /\ Goto("netMap", "prefix_create")
       ELSE /\ StageAborted("netMap")
            /\ UNCHANGED <<preExisting, todo, idx, stageIds>>
    /\ UNCHANGED <<store, nextId, deviceCreated, ipCreated, netMapUnchanged>>

PrefixesCreate ==
    /\ At("netMap", "prefix_create")
    /\ idx <= Len(todo)
    /\ \E out \in CreateOutcomes("prefixes", todo[idx].address) :
        /\ Sent("prefixes", "create", todo[idx].address, PrefixRefs, out)
        /\ IF out = "ok"
           THEN /\ store' = [store EXCEPT !["prefixes"] = @ \cup
                              {[id |-> nextId, prefix |-> todo[idx].address,
                                site |-> PrefixRefs.site, description |-> todo[idx].name,
                                vrf |-> ""]}]
                /\ nextId' = nextId + 1
                /\ idx' = idx + 1
                /\ UNCHANGED <<pc, attempted>>
           ELSE /\ UNCHANGED <<store, nextId>>
                /\ IF IsRequestError(out) THEN ItemRejected("netMap")
                   ELSE StageAborted("netMap") /\ UNCHANGED idx
        /\ UNCHANGED <<preExisting, todo, deviceCreated, ipCreated, stageIds, netMapUnchanged>>

PrefixesRefetch == \E out \in ListOutcomes :
    /\ At("netMap", "prefix_create")
    /\ idx > Len(todo)
    /\ Sent("prefixes", "list", "", NoRefs, out)
    /\ IF out = "ok" THEN Goto("netMap", "device_list") ELSE StageAborted("netMap")
    /\ UNCHANGED <<store, nextId, loopVars, netMapUnchanged>>

\* devicesPreExisting and the hosts that are not among its keys
DevicesList == \E out \in ListOutcomes :
    /\ At("netMap", "device_list")
    /\ Sent("devices", "list", "", NoRefs, out)
    /\ IF out = "ok"
       THEN LET NewHost(r) == IsHost(r) /\ r.address # "" /\ r.name \notin Keys("devices") IN
            /\ preExisting' = Index("devices")
            /\ todo' = SelectSeq(get_iterable(netMapJson), NewHost)
            /\ idx' = 1
            /\ stageIds' = AllIds
            /\ Goto("netMap", "device_create")
       ELSE /\ StageAborted("netMap")
            /\ UNCHANGED <<preExisting, todo, idx, stageIds>>
    /\ UNCHANGED <<store, nextId, deviceCreated, ipCreated, netMapUnchanged>>

\* "deviceCreated = nb.dcim.devices.create({...})"; an interface follows when
\* the address is an IP address or a MAC address
DevicesCreate ==
    /\ At("netMap", "device_create")
    /\ idx <= Len(todo)
    /\ \E out \in CreateOutcomes("devices", todo[idx].name) :
        /\ Sent("devices", "create", todo[idx].name, DeviceRefs, out)
        /\ IF out = "ok"
           THEN /\ store' = [store EXCEPT !["devices"] = @ \cup
                              {[id |-> nextId, name |-> todo[idx].name,
                                site |-> DeviceRefs.site,
                                device_type |-> DeviceRefs.device_type,
                                role |-> DeviceRefs.role,
                                primary_ip4 |-> None, primary_ip |-> None]}]
                /\ nextId' = nextId + 1
                /\ deviceCreated' = nextId
                /\ IF is_ip_address(todo[idx].address) \/ is_mac_address(todo[idx].address)
                   THEN Goto("netMap", "iface_create") /\ UNCHANGED idx
                   ELSE idx' = idx + 1 /\ UNCHANGED <<pc, attempted>>
           ELSE /\ UNCHANGED <<store, nextId, deviceCreated>>
                /\ IF IsRequestError(out) THEN ItemRejected("netMap")
                   ELSE StageAborted("netMap") /\ UNCHANGED idx
        /\ UNCHANGED <<preExisting, todo, ipCreated, stageIds, netMapUnchanged>>

\* "nb.dcim.interfaces.create({...})" in the same try as the device
InterfacesCreate ==
    /\ At("netMap", "iface_create")
    /\ \E out \in CreateOutcomes("interfaces", deviceCreated) :
        /\ Sent("interfaces", "create", todo[idx].name,
                [NoRefs EXCEPT !.device = deviceCreated], out)
        /\ IF out = "ok"
           THEN /\ store' = [store EXCEPT !["interfaces"] = @ \cup
                              {[id |-> nextId, device |-> deviceCreated,
                                mac_address |-> IF is_ip_address(todo[idx].address)
                                                THEN "" ELSE todo[idx].address]}]
                /\ nextId' = nextId + 1
                /\ idx' = idx + 1
                /\ Goto("netMap", "device_create")
           ELSE /\ UNCHANGED <<store, nextId>>
                /\ IF IsRequestError(out)
                   THEN idx' = idx + 1 /\ Goto("netMap", "device_create")
                   ELSE StageAborted("netMap") /\ UNCHANGED idx
        /\ UNCHANGED <<preExisting, todo, deviceCreated, ipCreated, stageIds, netMapUnchanged>>

\* "devices = {x.name: x for x in nb.dcim.devices.all()}"
DevicesRefetch == \E out \in ListOutcomes :
    /\ At("netMap", "device_create")
    /\ idx > Len(todo)
    /\ Sent("devices", "list", "", NoRefs, out)
    /\ IF out = "ok"
       THEN devices' = Index("devices") /\ Goto("netMap", "iface_refetch")
       ELSE StageAborted("netMap") /\ UNCHANGED devices
    /\ UNCHANGED <<args, restoreVars, store, nextId, groups, manufacturers, roles, deviceTypes, sites,
                   interfaces, loopVars, ready, runVars, fillerVars, templateVars, concVars>>

\* "interfaces = {x.device.id: x for x in nb.dcim.interfaces.all()}"
InterfacesRefetch == \E out \in ListOutcomes :
    /\ At("netMap", "iface_refetch")
    /\ Sent("interfaces", "list", "", NoRefs, out)
    /\ IF out = "ok"
       THEN interfaces' = Index("interfaces") /\ Goto("netMap", "ip_list")
       ELSE StageAborted("netMap") /\ UNCHANGED interfaces
    /\ UNCHANGED <<args, restoreVars, store, nextId, groups, manufacturers, roles, deviceTypes, sites,
                   devices, loopVars, ready, runVars, fillerVars, templateVars, concVars>>

\* ipAddressesPreExisting and the hosts with an IP address and a known device
IpAddressesList == \E out \in ListOutcomes :
    /\ At("netMap", "ip_list")
    /\ Sent("ipAddresses", "list", "", NoRefs, out)
    /\ IF out = "ok"
       THEN LET Addressed(r) ==
                    IsHost(r) /\ is_ip_address(r.address) /\ r.name \in DOMAIN devices IN
            /\ preExisting' = Index("ipAddresses")
            /\ todo' = SelectSeq(get_iterable(netMapJson), Addressed)
            /\ idx' = 1
            /\ stageIds' = AllIds
            /\ Goto("netMap", "ip_create")
       ELSE /\ StageAborted("netMap")
            /\ UNCHANGED <<preExisting, todo, idx, stageIds>>
    /\ UNCHANGED <<store, nextId, deviceCreated, ipCreated, netMapUnchanged>>

\* one iteration of the address loop up to "ipCreated = ...create({...})"
IpAddressesCreate ==
    /\ At("netMap", "ip_create")
    /\ idx <= Len(todo)
    /\ LET host == todo[idx]
           dev == devices[host.name].id
       IN
       IF hostKey(host.address) \in DOMAIN preExisting
       THEN \* "if hostKey not in ipAddressesPreExisting" is false: next host
            /\ idx' = idx + 1
            /\ UNCHANGED <<store, nextId, ipCreated, pc, attempted, lastReq, firstRead, faults>>
       ELSE IF dev \notin DOMAIN interfaces
       THEN \* interfaces[devices[host['name']].id] is a KeyError
            /\ StageAborted("netMap")
            /\ UNCHANGED <<store, nextId, ipCreated, idx, lastReq, firstRead, faults>>
       ELSE \E out \in CreateOutcomes("ipAddresses", hostKey(host.address)) :
            /\ Sent("ipAddresses", "create", hostKey(host.address),
                    [NoRefs EXCEPT !.device = dev], out)
            /\ IF out = "ok"
               THEN /\ store' = [store EXCEPT !["ipAddresses"] = @ \cup
                                  {[id |-> nextId, address |-> hostKey(host.address),
                                    assigned_object_id |-> interfaces[dev].id]}]
                    /\ nextId' = nextId + 1
                    /\ ipCreated' = nextId
                    /\ Goto("netMap", "ip_primary")
                    /\ UNCHANGED idx
               ELSE /\ UNCHANGED <<store, nextId, ipCreated>>
                    /\ IF IsRequestError(out) THEN ItemRejected("netMap")
                       ELSE StageAborted("netMap") /\ UNCHANGED idx
    /\ UNCHANGED <<preExisting, todo, deviceCreated, stageIds, netMapUnchanged>>

\* a save that writes the whole device back and drops its site
WithPrimaryDroppingSite(d, a, ip) ==
    IF is_ip_v4_address(a) THEN [d EXCEPT !.primary_ip4 = ip, !.site = None]
    ELSE [d EXCEPT !.primary_ip = ip, !.site = None]

\* the device with the new address as its primary one
WithPrimary(d, a, ip) ==
    IF is_ip_v4_address(a) THEN [d EXCEPT !.primary_ip4 = ip]
    ELSE IF is_ip_v6_address(a) THEN [d EXCEPT !.primary_ip = ip]
    ELSE d

\* "deviceForIp = nb.dcim.devices.get(...)" ... "deviceForIp.save()"
DevicePrimaryIp == \E out \in UpdateOutcomes :
    /\ At("netMap", "ip_primary")
    /\ LET host == todo[idx]
           dev == devices[host.name].id
       IN
       /\ Sent("devices", "update", host.name, [NoRefs EXCEPT !.device = dev], out)
       /\ IF out = "ok"
          THEN /\ store' = [store EXCEPT !["devices"] =
                              {IF d.id = dev THEN WithPrimary(d, host.address, ipCreated)
                               ELSE d : d \in @}]
               /\ idx' = idx + 1
               /\ Goto("netMap", "ip_create")
          ELSE /\ UNCHANGED store
               /\ IF IsRequestError(out)
                  THEN idx' = idx + 1 /\ Goto("netMap", "ip_create")
                  ELSE StageAborted("netMap") /\ UNCHANGED idx
    /\ UNCHANGED <<nextId, preExisting, todo, deviceCreated, ipCreated, stageIds,
                   netMapUnchanged>>

\* "ipAddresses = {x.address: x for x in nb.ipam.ip_addresses.all()}"
IpAddressesRefetch == \E out \in ListOutcomes :
    /\ At("netMap", "ip_create")
    /\ idx > Len(todo)
    /\ Sent("ipAddresses", "list", "", NoRefs, out)
    /\ IF out = "ok" THEN StageDone("netMap") ELSE StageAborted("netMap")
    /\ UNCHANGED <<store, nextId, loopVars, netMapUnchanged>>

\* ------------------------------------------------- legacy-field migration
\* identifiers of a set of records in ascending order
RECURSIVE IdsAscending(_)
IdsAscending(recs) ==
    IF recs = {} THEN <<>>
    ELSE LET r == CHOOSE r \in recs : \A q \in recs : r.id <= q.id
         IN <<r.id>> \o IdsAscending(recs \ {r})

\* "[x for x in nb.ipam.prefixes.filter(description__empty=True) if x.vrf]"
MigrationFilter == \E out \in ListOutcomes :
    /\ At("migration", "filter")
    /\ Sent("prefixes", "filter", "", NoRefs, out)
    /\ IF out = "ok"
       THEN LET legacy == {r \in store["prefixes"] : r.description = "" /\ r.vrf # ""} IN
            /\ todo' = IdsAscending(legacy)
            /\ idx' = 1
            /\ IF legacy = {} THEN StageDone("migration") ELSE Goto("migration", "update")
       ELSE /\ StageAborted("migration")
            /\ UNCHANGED <<todo, idx>>
    /\ UNCHANGED <<args, restoreVars, store, nextId, dictVars, preExisting, deviceCreated, ipCreated,
                   stageIds, ready, runVars, fillerVars, templateVars, concVars>>

\* "prefix.update({"description": str(prefix.vrf)})": the loop has no try of
\* its own, any failure leaves it
MigrationUpdate ==
    /\ At("migration", "update")
    /\ idx <= Len(todo)
    /\ \E out \in UpdateOutcomes :
        /\ Sent("prefixes", "update", "", NoRefs, out)
        /\ IF out = "ok"
           THEN /\ store' = [store EXCEPT !["prefixes"] =
                               {IF r.id = todo[idx] THEN [r EXCEPT !.description = r.vrf]
                                ELSE r : r \in @}]
                /\ idx' = idx + 1
                /\ IF idx = Len(todo) THEN StageDone("migration")
                   ELSE UNCHANGED <<pc, attempted>>
           ELSE /\ StageAborted("migration")
                /\ UNCHANGED <<store, idx>>
    /\ UNCHANGED <<args, restoreVars, nextId, dictVars, preExisting, todo, deviceCreated, ipCreated,
                   stageIds, ready, runVars, fillerVars, templateVars, concVars>>

\* ------------------------------------------- bulk load and library import
noRequest == <<args, restoreVars, store, nextId, dictVars, loopVars, lastReq, firstRead, faults,
               ready, runVars, fillerVars, templateVars, concVars>>

\* "if os.path.isfile(netboxVenvPy) and ...: try: ... run_process(...)": the
\* loader is an external process, its fixtures are outside this model
Initializers ==
    /\ At("initializers", "run")
    /\ \E found \in BOOLEAN, out \in {"ok", "failed", "error"} :
        IF found /\ out = "error" THEN StageAborted("initializers")
        ELSE StageDone("initializers")
    /\ UNCHANGED noRequest

\* "if os.path.isdir(args.libraryDir): try: ... run_process(cmd, ...)"
LibraryImport ==
    /\ At("library", "run")
    /\ \E found \in BOOLEAN, out \in {"ok", "failed", "error"} :
        IF found /\ out = "error" THEN StageAborted("library")
        ELSE StageDone("library")
    /\ UNCHANGED noRequest

\* ----------------------------------------------------------- a second run
\* the script is started again with the same command line on the same store
Rerun ==
    /\ pc \in {Done, Skipped}
    /\ ~rerun
    /\ rerun' = TRUE
    /\ prevKeys' = KeySets
    /\ prevFaults' = faults
    /\ groups' = <<>> /\ manufacturers' = <<>> /\ roles' = <<>> /\ deviceTypes' = <<>>
    /\ sites' = <<>> /\ devices' = <<>> /\ interfaces' = <<>>
    /\ preExisting' = <<>> /\ todo' = <<>> /\ idx' = 1
    /\ deviceCreated' = None /\ ipCreated' = None /\ stageIds' = {}
    /\ pc' = Start
    /\ attempted' = {}
    /\ preloadDatabaseFile' = ""
    /\ preloadDatabaseSuccess' = FALSE
    /\ restoreLog' = <<>>
    /\ lastReq' = NoReq
    /\ firstRead' = "none"
    /\ ready' = FALSE
    /\ UNCHANGED <<args, snapshots, service, store, nextId, faults, fillerVars, templateVars, concVars>>

Next ==
    \/ PreloadSelect
    \/ StopServices \/ DropDatabase \/ CreateDatabase \/ GrantPrivileges \/ LoadDump
    \/ MigrateVrfNames \/ TruncateUsers \/ StartServices \/ RunMigrations
    \/ CreateSuperuser \/ RestoreMedia
    \/ WaitForConnection
    \/ GroupsList \/ GroupsCreate \/ GroupsRefetch
    \/ PermissionsContentTypes \/ PermissionsList \/ PermissionsCreate \/ PermissionsRefetch
    \/ ManufacturersList \/ ManufacturersCreate \/ ManufacturersRefetch
    \/ RolesList \/ RolesCreate \/ RolesRefetch
    \/ DeviceTypesList \/ DeviceTypesCreate \/ DeviceTypesRefetch
    \/ SitesList \/ SitesCreate \/ SitesRefetch
    \/ NetMapLoad
    \/ PrefixesList \/ PrefixesCreate \/ PrefixesRefetch
    \/ DevicesList \/ DevicesCreate \/ InterfacesCreate
    \/ DevicesRefetch \/ InterfacesRefetch
    \/ IpAddressesList \/ IpAddressesCreate \/ DevicePrimaryIp \/ IpAddressesRefetch
    \/ MigrationFilter \/ MigrationUpdate
    \/ Initializers \/ LibraryImport
    \/ Rerun

Spec == Init /\ [][Next]_vars

\* ------------------------------------------- the filler rule on its own
FillerNames == {"a", "b", "c"}

\* dictionaries of name -> identifier in insertion order, names distinct
Mappings ==
    {m \in UNION {[1..n -> FillerNames \X (1..MaxIdent)] : n \in 0..MaxEntries} :
        \A i, j \in 1..Len(m) : i # j => m[i][1] # m[j][1]}

FillerInit ==
    /\ args = DefaultArgs
    /\ snapshots = {}
    /\ preloadDatabaseFile = ""
    /\ preloadDatabaseSuccess = FALSE
    /\ restoreLog = <<>>
    /\ service = [running |-> TRUE, database |-> "loaded"]
    /\ store = EmptyStore
    /\ nextId = 1
    /\ FreshLocals
    /\ pc = Done
    /\ attempted = {}
    /\ lastReq = NoReq
    /\ firstRead = "none"
    /\ ready = FALSE
    /\ faults = 0
    /\ rerun = TRUE
    /\ prevKeys = [c \in Collections |-> {}]
    /\ prevFaults = 0
    /\ x \in Mappings
    /\ result = None
    /\ calls = 0
    /\ IdleTemplate
    /\ IdleConcurrent

\* one call min_hash_value_by_value(x)
FillerCall ==
    /\ calls < MaxCalls
    /\ result' = min_hash_value_by_value(x)
    /\ calls' = calls + 1
    /\ UNCHANGED <<args, restoreVars, store, nextId, dictVars, loopVars, pc, attempted, lastReq,
                   firstRead, ready, faults, runVars, x,
                   templateVars, concVars>>

FillerNext == FillerCall

FillerSpec == FillerInit /\ [][FillerNext]_vars

\* ------------------------------------- generate-recipe.py: one generation
otherVars == <<args, restoreVars, store, nextId, dictVars, loopVars, pc, attempted, lastReq,
               firstRead, ready, faults, runVars, fillerVars, concVars>>

\* "in_text = in_file.read()" with the variables of the suite and version set
TemplateInit ==
    /\ args = DefaultArgs
    /\ snapshots = {}
    /\ preloadDatabaseFile = ""
    /\ preloadDatabaseSuccess = FALSE
    /\ restoreLog = <<>>
    /\ service = [running |-> TRUE, database |-> "loaded"]
    /\ store = EmptyStore
    /\ nextId = 1
    /\ FreshLocals
    /\ pc = Done
    /\ attempted = {}
    /\ lastReq = NoReq
    /\ firstRead = "none"
    /\ ready = FALSE
    /\ faults = 0
    /\ rerun = TRUE
    /\ prevKeys = [c \in Collections |-> {}]
    /\ prevFaults = 0
    /\ IdleFiller
    /\ IdleConcurrent
    /\ in_text \in Documents
    /\ wireless_firmware \in ScalarValues
    /\ extra_root_shell_cmds \in ListValues
    /\ out_text = <<>>
    /\ out_file = <<>>
    /\ phase = "read"

\* "out_text = (in_text.replace(...)...)"
Replace ==
    /\ phase = "read"
    /\ out_text' = [i \in 1..Len(in_text) |-> replace(in_text[i], wireless_firmware)]
    /\ phase' = "replaced"
    /\ UNCHANGED <<in_text, wireless_firmware, extra_root_shell_cmds, out_file, otherVars>>

\* "out_text = align_replace(out_text, '__EXTRA_ROOT_SHELL_CMDS__', ...)"
Align ==
    /\ phase = "replaced"
    /\ out_text' = align_replace(out_text, extra_root_shell_cmds)
    /\ phase' = "aligned"
    /\ UNCHANGED <<in_text, wireless_firmware, extra_root_shell_cmds, out_file, otherVars>>

\* "filtered = [...]; out_file.write('\n'.join(filtered) + "\n")"
Write ==
    /\ phase = "aligned"
    /\ out_file' = Joined(SelectSeq(out_text, KeepLine))
    /\ phase' = "written"
    /\ UNCHANGED <<in_text, wireless_firmware, extra_root_shell_cmds, out_text, otherVars>>

TemplateNext == Replace \/ Align \/ Write

TemplateSpec == TemplateInit /\ [][TemplateNext]_vars

\* ------------------------------------- two invocations of main on one store
\* the command line both invocations are started with
ConcurrentInputs ==
    {[DefaultArgs EXCEPT !.netMap = [present |-> TRUE, kind |-> "list",
         items |-> <<Segment("seg1", "10.0.0.0/8"), Host("h1", "10.0.0.5")>>]]}

\* the locals of the invocation that is running
Locals ==
    [pc |-> pc, attempted |-> attempted, lastReq |-> lastReq, firstRead |-> firstRead,
     ready |-> ready, groups |-> groups, manufacturers |-> manufacturers,
     roles |-> roles, deviceTypes |-> deviceTypes, sites |-> sites,
     devices |-> devices, interfaces |-> interfaces, preExisting |-> preExisting,
     todo |-> todo, idx |-> idx, deviceCreated |-> deviceCreated,
     ipCreated |-> ipCreated, stageIds |-> stageIds]

\* two processes run main (lines 906-907) with the same command line; the store is
\* the only thing they share
ConcurrentInit ==
    /\ args \in ConcurrentInputs
    /\ snapshots = {}
    /\ preloadDatabaseFile = ""
    /\ preloadDatabaseSuccess = FALSE
    /\ restoreLog = <<>>
    /\ service = [running |-> TRUE, database |-> "loaded"]
    /\ store \in {EmptyStore, LegacyStore(1)}
    /\ nextId = Cardinality(AllIds) + 1
    /\ FreshLocals
    /\ pc = StartPc(args)
    /\ attempted = StartAttempted(args)
    /\ lastReq = NoReq
    /\ firstRead = "none"
    /\ ready = FALSE
    /\ faults = MaxFaults
    /\ rerun = FALSE
    /\ prevKeys = [c \in Collections |-> {}]
    /\ prevFaults = 0
    /\ IdleFiller
    /\ IdleTemplate
    /\ other = Locals
    /\ switches = 0

\* the operating system lets the other process run: main takes no lock and
\* waits for nothing but the answer to its own request, so the other process
\* can run between any two requests
Switch ==
    /\ other # <<>>
    /\ other.pc # Done
    /\ switches < MaxSwitches
    /\ other' = Locals
    /\ switches' = switches + 1
    /\ pc' = other.pc
    /\ attempted' = other.attempted
    /\ lastReq' = other.lastReq
    /\ firstRead' = other.firstRead
    /\ ready' = other.ready
    /\ groups' = other.groups
    /\ manufacturers' = other.manufacturers
    /\ roles' = other.roles
    /\ deviceTypes' = other.deviceTypes
    /\ sites' = other.sites
    /\ devices' = other.devices
    /\ interfaces' = other.interfaces
    /\ preExisting' = other.preExisting
    /\ todo' = other.todo
    /\ idx' = other.idx
    /\ deviceCreated' = other.deviceCreated
    /\ ipCreated' = other.ipCreated
    /\ stageIds' = other.stageIds
    /\ UNCHANGED <<args, restoreVars, store, nextId, faults, runVars, fillerVars,
                   templateVars>>

ConcurrentNext ==
    \/ WaitForConnection
    \/ GroupsList \/ GroupsCreate \/ GroupsRefetch
    \/ PermissionsContentTypes \/ PermissionsList \/ PermissionsCreate \/ PermissionsRefetch
    \/ ManufacturersList \/ ManufacturersCreate \/ ManufacturersRefetch
    \/ RolesList \/ RolesCreate \/ RolesRefetch
    \/ DeviceTypesList \/ DeviceTypesCreate \/ DeviceTypesRefetch
    \/ SitesList \/ SitesCreate \/ SitesRefetch
    \/ NetMapLoad
    \/ PrefixesList \/ PrefixesCreate \/ PrefixesRefetch
    \/ DevicesList \/ DevicesCreate \/ InterfacesCreate
    \/ DevicesRefetch \/ InterfacesRefetch
    \/ IpAddressesList \/ IpAddressesCreate \/ DevicePrimaryIp \/ IpAddressesRefetch
    \/ MigrationFilter \/ MigrationUpdate
    \/ Initializers \/ LibraryImport
    \/ Switch

ConcurrentSpec == ConcurrentInit /\ [][ConcurrentNext]_vars

\* ================================================================= claims
ReadBeforeWriteCollections ==
    {"groups", "permissions", "manufacturers", "roles", "deviceTypes", "sites",
     "prefixes", "devices"}

MapItems == IF netMapJson.present THEN get_iterable(netMapJson) ELSE <<>>

\* the hosts of the map that carry an IP address
IpHosts == {MapItems[i] : i \in {j \in 1..Len(MapItems) :
                IsHost(MapItems[j]) /\ is_ip_address(MapItems[j].address)}}

\* no two host records of the map share a name or an address
DistinctHosts ==
    \A i, j \in 1..Len(MapItems) :
        (i # j /\ IsHost(MapItems[i]) /\ IsHost(MapItems[j]))
            => /\ MapItems[i].name # MapItems[j].name
               /\ MapItems[i].address # MapItems[j].address

InterfacesOf(d) == {i \in store["interfaces"] : i.device = d.id}

AddressesOf(d) ==
    {a \in store["ipAddresses"] : \E i \in InterfacesOf(d) : a.assigned_object_id = i.id}

\* the device of host h has its interface, its address record and its primary address
Complete(h) ==
    \E d \in store["devices"] :
        /\ d.name = h.name
        /\ InterfacesOf(d) # {}
        /\ \E a \in AddressesOf(d) :
               /\ a.address = hostKey(h.address)
               /\ IF is_ip_v4_address(h.address) THEN d.primary_ip4 = a.id
                  ELSE d.primary_ip = a.id

\* C1: a second run with the same command line on the store the first run
\* left issues no create, and leaves the key sets of the store as the first
\* run left them (stated for runs in which the store answered every request
\* with success, the case most favourable to the claim)
C1_SecondRunCreatesNothing ==
    (rerun /\ faults = 0)
        => /\ lastReq.op # "create"
           /\ (pc = Done => KeySets = prevKeys)

\* C2: a create for a group, permission, manufacturer, role, device type,
\* site, prefix or device is issued only for a key that is absent from the
\* collection fetched at the start of its stage
C2_CreateOnlyMissingKeys ==
    (lastReq.op = "create" /\ lastReq.coll \in ReadBeforeWriteCollections)
        => lastReq.key \notin DOMAIN preExisting

\* C3: when the first run was cut short by a refused or failed request and
\* the second run meets no failure, then at the end of the second run every
\* host of the map with an IP address has its device, interface, address
\* record and primary address (stated for maps whose hosts are distinct)
C3_SecondRunCompletesHosts ==
    (rerun /\ pc = Done /\ faults = prevFaults /\ DistinctHosts)
        => \A h \in IpHosts : Complete(h)

\* C4: in a run that starts on a store without devices, every device ends up
\* with at most one interface and at most one address record
C4_OneInterfaceOneAddress ==
    ~rerun => \A d \in store["devices"] :
                 /\ Cardinality(InterfacesOf(d)) <= 1
                 /\ Cardinality(AddressesOf(d)) <= 1

CreationSteps == {"create", "prefix_create", "device_create", "iface_create", "ip_create"}

\* where the loop of a creation step takes up its next item
LoopHead(step) ==
    IF step = "iface_create" THEN "device_create" ELSE step

\* C5: when the store refuses the create of one item of a creation loop, the
\* store is left as it was, the loop moves on to the next item of the same
\* stage, and a create the store accepts puts its item into the store
C5_RejectedItemIsSkipped ==
    [][(pc.step \in CreationSteps /\ lastReq'.n # lastReq.n /\ lastReq'.op = "create")
        => /\ IsRequestError(lastReq'.out)
              => /\ store' = store
                 /\ idx' = idx + 1
                 /\ pc' = [stage |-> pc.stage, step |-> LoopHead(pc.step)]
           /\ lastReq'.out = "ok"
              => /\ Cardinality(store'[lastReq'.coll]) = Cardinality(store[lastReq'.coll]) + 1
                 /\ pc'.stage = pc.stage]_vars

C5_Witness ==
    /\ At("manufacturers", "create")
    /\ Len(todo) = 2 /\ idx = 3
    /\ lastReq.out = "ok"
    /\ todo[1] \notin Keys("manufacturers")
    /\ todo[2] \in Keys("manufacturers")

StagesUpTo(k) == {Stages[i] : i \in 1..k}

\* C6: whatever failed on the way, main is in a stage only after it entered
\* every earlier stage, and the run ends only after it entered every stage
C6_EveryStageIsAttempted ==
    /\ pc = Done => attempted = StagesUpTo(Len(Stages))
    /\ (\E i \in 1..Len(Stages) : Stages[i] = pc.stage)
          => attempted = StagesUpTo(StageNo(pc.stage))

C6_Witness ==
    /\ ~rerun /\ pc = Done
    /\ faults = 1
    /\ groups = <<>>
    /\ Keys("sites") # {}

IdsOf(coll) == {r.id : r \in store[coll]}

Known(ref, coll) == ref = None \/ ref \in (IdsOf(coll) \cap stageIds)

\* C7: the references of every create of a device, a device type or a prefix
\* are empty or identify a record of the right collection that was in the
\* store when the creation loop of that stage began
C7_ReferencesExistBeforeStage ==
    lastReq.op = "create" =>
        /\ lastReq.coll = "devices"
              => /\ Known(lastReq.refs.site, "sites")
                 /\ Known(lastReq.refs.device_type, "deviceTypes")
                 /\ Known(lastReq.refs.role, "roles")
        /\ lastReq.coll = "deviceTypes" => Known(lastReq.refs.manufacturer, "manufacturers")
        /\ lastReq.coll = "prefixes" => Known(lastReq.refs.site, "sites")

C7_Witness ==
    /\ lastReq.op = "create" /\ lastReq.coll = "devices" /\ lastReq.out = "ok"
    /\ lastReq.refs.site # None
    /\ lastReq.refs.device_type # None
    /\ lastReq.refs.role # None
    /\ lastReq.refs.site \in IdsOf("sites")

Values(m) == {m[i][2] : i \in 1..Len(m)}

\* C8: every call of the filler rule returns the smallest identifier of the
\* mapping, and None for the empty mapping
C8_FillerReturnsSmallest ==
    calls > 0 =>
        IF x = <<>> THEN result = None
        ELSE result \in Values(x) /\ \A v \in Values(x) : result <= v

C8_Witness ==
    /\ calls = MaxCalls
    /\ Len(x) = 3
    /\ result = x[3][2]
    /\ result < x[1][2] /\ result < x[2][2]

\* C9: without --wait, once the first read of the store has failed, no
\* further request is issued
C9_NoWaitFailsFast ==
    (~args.wait /\ firstRead = "failed") => lastReq.n <= 1

\* C10: with --wait, no stage request is issued before a readiness read has
\* succeeded; a failed readiness read leaves main in the poll loop, ready
\* for another attempt, and a successful one starts the groups stage
C10_WaitsUntilReady ==
    /\ [](args.wait /\ lastReq.op \notin {"none", "poll"} => ready)
    /\ [][pc.stage = "poll"
            => IF lastReq'.out = "ok"
               THEN ready' /\ pc' = [stage |-> "groups", step |-> "list"]
               ELSE ~ready' /\ pc' = pc /\ ENABLED WaitForConnection]_vars

C10_Witness ==
    /\ args.wait
    /\ firstRead = "failed"
    /\ ready
    /\ lastReq.coll = "groups" /\ lastReq.op = "create"

\* a restore was attempted in this run
RestoreAttempted == restoreLog # <<>>

\* main is inside the block of line 488
Reconciling == pc.stage \notin {"preload", "skipped"}

\* C11 as stated: a run that attempts a restore never enters the incremental
\* path, whether the restore succeeds or fails
C11_RestoreExcludesReconciliation == RestoreAttempted => ~Reconciling

\* C11 amended: after a restore attempt the incremental path is entered exactly
\* when the dump was not loaded and no dump was named with --preload-backup;
\* a loaded dump, or a dump named on the command line, ends the run
C11_ReconcilesOnlyAfterFailedDirectoryRestore ==
    /\ (RestoreAttempted /\ Reconciling)
          => (~preloadDatabaseSuccess /\ args.preloadBackupFile = "")
    /\ (RestoreAttempted /\ pc = Skipped)
          => (preloadDatabaseSuccess \/ args.preloadBackupFile # "")

\* C11 witness: a dump of the directory failed to load and the run went on to
\* create an entity through the incremental path
C11_Witness ==
    /\ RestoreAttempted
    /\ ~preloadDatabaseSuccess
    /\ preloadDatabaseFile \in PreloadDirFiles
    /\ lastReq.op = "create" /\ lastReq.out = "ok"

\* the names of the steps in the log, in the order they ran
StepsRun == [i \in 1..Len(restoreLog) |-> restoreLog[i][1]]

\* the restore of this run is over
RestoreOver == RestoreAttempted /\ pc.stage # "preload"

\* the pipeline without its last step, which runs only if a media archive exists
StepsBeforeMedia == SubSeq(RestoreSteps, 1, Len(RestoreSteps) - 1)

\* a result after which the rest of the pipeline is skipped
Fatal(e) == (e[1] \in {"createdb", "load"} /\ e[2] = "failed") \/ e[2] = "raised"

\* C12 as stated: whichever step fails, every later step of the pipeline is
\* still executed, in the stated order, up to the last one
C12_PipelineRunsToItsEnd == RestoreOver => StepsRun \in {StepsBeforeMedia, RestoreSteps}

\* C12 amended: the steps run in the stated order; a failure reported by stop,
\* drop, grant, schema-drift fix, strip secrets, restart, migrations, admin
\* account or media is followed by the next step; a failed recreate or load,
\* or a command that raises, ends the pipeline with all later steps skipped
C12_PipelineStopsOnlyAtCreateOrLoad ==
    /\ \A i \in 1..Len(restoreLog) : restoreLog[i][1] = RestoreSteps[i]
    /\ \A i \in 1..(Len(restoreLog) - 1) : ~Fatal(restoreLog[i])
    /\ RestoreOver => \/ Fatal(restoreLog[Len(restoreLog)])
                      \/ Len(restoreLog) >= Len(StepsBeforeMedia)
    /\ (pc.stage = "preload" /\ RestoreAttempted)
          => /\ ~Fatal(restoreLog[Len(restoreLog)])
             /\ pc.step = RestoreSteps[Len(restoreLog) + 1]

\* C12 witness: the grant and the media step failed and the pipeline ran all
\* its steps
C12_Witness ==
    /\ RestoreOver
    /\ Len(restoreLog) = Len(RestoreSteps)
    /\ restoreLog[4] = <<"grant", "failed">>
    /\ restoreLog[Len(restoreLog)] = <<"media", "failed">>

\* the step ends the iteration of the device loop in which a device was created
DeviceIterationOver ==
    /\ pc.stage = "netMap"
    /\ \/ pc.step = "iface_create"
       \/ /\ pc.step = "device_create"
          /\ lastReq'.n # lastReq.n /\ lastReq'.coll = "devices"
          /\ lastReq'.op = "create" /\ lastReq'.out = "ok"
    /\ pc' # [stage |-> "netMap", step |-> "iface_create"]

\* the interfaces of the device created in the running iteration, after the step
NewInterfaces == {i \in store'["interfaces"] : i.device = deviceCreated'}

\* the step was an interface create for the device of the running iteration
InterfaceRequested ==
    /\ lastReq'.n # lastReq.n
    /\ lastReq'.coll = "interfaces" /\ lastReq'.op = "create"
    /\ lastReq'.refs.device = deviceCreated'

\* C13 as stated: a newly created device gets exactly one interface, without
\* MAC, when its address is an IP address, exactly one interface carrying the
\* MAC when its address is a MAC address, and no interface otherwise
C13_InterfaceFollowsClassification ==
    [][DeviceIterationOver =>
         LET a == todo[idx].address IN
         IF a \in IPv4Addresses \cup IPv6Addresses
         THEN \E i \in NewInterfaces : NewInterfaces = {i} /\ i.mac_address = ""
         ELSE IF a \in MacAddresses
              THEN \E i \in NewInterfaces : NewInterfaces = {i} /\ i.mac_address = a
              ELSE NewInterfaces = {}]_vars

\* C13 amended: for a newly created device exactly one interface create is
\* issued when its address is an IP address (no MAC) or a MAC address (that
\* MAC), the device has that one interface if the store accepts the create
\* and none if it does not; no interface create is issued for other addresses
C13_InterfaceRequestFollowsClassification ==
    [][DeviceIterationOver =>
         LET a == todo[idx].address
             mac == IF a \in MacAddresses THEN a ELSE ""
         IN IF a \in IPv4Addresses \cup IPv6Addresses \cup MacAddresses
            THEN /\ pc.step = "iface_create"
                 /\ InterfaceRequested
                 /\ IF lastReq'.out = "ok"
                    THEN \E i \in NewInterfaces :
                             NewInterfaces = {i} /\ i.mac_address = mac
                    ELSE NewInterfaces = {}
            ELSE pc.step = "device_create" /\ NewInterfaces = {}]_vars

\* C13 witness: the device loop is over with two new devices, one whose
\* interface carries the MAC address of its host record, one whose interface
\* has no MAC
C13_Witness ==
    /\ pc = [stage |-> "netMap", step |-> "device_create"]
    /\ Len(todo) = 2 /\ idx > Len(todo)
    /\ \E i \in store["interfaces"] : i.mac_address \in MacAddresses
    /\ \E i \in store["interfaces"] : i.mac_address = ""

\* C14: a map file holding one object is processed like the list of that one
\* object: once a first run is over in which no request failed, the prefix of
\* a lone segment object and the device of a lone host object are in the store
C14_SingleObjectIsProcessed ==
    (~rerun /\ pc = Done /\ faults = 0 /\ Serving /\ netMapJson.kind = "object")
      => LET r == netMapJson.items[1] IN
         /\ IsSegment(r) => r.address \in Keys("prefixes")
         /\ (IsHost(r) /\ r.address # "") => r.name \in Keys("devices")

\* the names of the devices the store held when this run began
DevicesBefore == IF rerun THEN prevKeys["devices"] ELSE {r.name : r \in {}}

\* the net-map stage of this run has just ended
ImportOver == pc = [stage |-> "migration", step |-> "filter"]

\* host h is imported in full: one interface, one address record with the
\* host's address bound to that interface, and that record as primary address
Imported(h) ==
    \E d \in store["devices"] :
        /\ d.name = h.name
        /\ Cardinality(InterfacesOf(d)) = 1
        /\ \E a \in AddressesOf(d) :
               /\ {b \in AddressesOf(d) : b.address = a.address} = {a}
               /\ a.address = hostKey(h.address)
               /\ IF is_ip_v4_address(h.address) THEN d.primary_ip4 = a.id
                  ELSE d.primary_ip = a.id

\* C15: when the store accepted all requests, after the import every host
\* record with an IP address whose device is new has its device with exactly
\* one interface, one address record with the host's address (/32 or /128)
\* bound to that interface, and that record as the device's primary address
C15_NewHostIsImported ==
    (ImportOver /\ lastReq.accepted)
      => \A h \in IpHosts : h.name \notin DevicesBefore => Imported(h)

\* a line that is empty or holds white space only
Blank(line) == line = Spaces(Len(line))

\* a line that holds white space only, and at least one character of it
WhitespaceOnly(line) == line # <<>> /\ Blank(line)

\* a dash with n characters of white space before it and any number after it
BareDash(line, n) == \E m \in 0..Len(line) : line = Spaces(n) \o <<"-">> \o Spaces(m)

\* a line that is only a list-item marker
EmptyItem(line) == \E n \in 0..Len(line) : BareDash(line, n)

\* a line that is only a list-item marker behind some indentation
IndentedEmptyItem(line) == \E n \in 1..Len(line) : BareDash(line, n)

Unmarked(line) == ~Blank(line) /\ ~EmptyItem(line)

Wanted(line) == ~WhitespaceOnly(line) /\ ~IndentedEmptyItem(line)

\* C16 as stated: the written document has no blank line (empty or white
\* space only) and no line that is only a list-item marker (a dash with
\* optional white space around it); all other lines are kept, in order
C16_NoBlankOrEmptyItemLine ==
    phase = "written"
      => /\ \A i \in 1..Len(out_file) : Unmarked(out_file[i])
         /\ out_file = SelectSeq(out_text, Unmarked)

\* C16 amended: the written document has no line of white space only and no
\* indented line that is only a list-item marker; all other lines, the empty
\* ones and a marker in the first column among them, are kept in order, and
\* when no line is kept the document is one empty line
C16_NoIndentedBlankOrEmptyItemLine ==
    phase = "written"
      => /\ \A i \in 1..Len(out_file) : Wanted(out_file[i])
         /\ out_file = IF SelectSeq(out_text, Wanted) = <<>> THEN <<<<>>>>
                       ELSE SelectSeq(out_text, Wanted)

\* C16 witness: a document was written from which the filter dropped a list
\* item whose placeholder was replaced by nothing, and kept an empty line
C16_Witness ==
    /\ phase = "written"
    /\ \E i \in 1..Len(in_text) : in_text[i] = <<" ", "-", " ", "P">>
    /\ \E i \in 1..Len(out_text) : IndentedEmptyItem(out_text[i])
    /\ out_file = <<<<>>>>
    /\ Len(out_text) = 2

\* C17: in the address stage no create is issued for an address of which the
\* store holds a record at the time of the request, be it a record created
\* earlier in the same stage for another host record
C17_NoCreateForExistingAddress ==
    [][(lastReq'.n # lastReq.n /\ lastReq'.coll = "ipAddresses" /\ lastReq'.op = "create")
         => lastReq'.key \notin Keys("ipAddresses")]_vars

\* the prefixes that lack a description and have a legacy reference
LegacyLeft == {r \in store["prefixes"] : r.description = "" /\ r.vrf # ""}

\* the migration stage of this run has just ended
MigrationOver == pc = [stage |-> "initializers", step |-> "run"]

\* C18: after the migration stage every prefix that lacked a description and
\* has a legacy reference carries that reference's name, except the prefixes
\* whose own update failed; a failed update is skipped and the loop goes on
\* to the remaining prefixes
C18_FailedUpdateIsSkipped ==
    /\ []((MigrationOver /\ lastReq.accepted) => LegacyLeft = {})
    /\ [][(pc = [stage |-> "migration", step |-> "update"]
            /\ lastReq'.n # lastReq.n /\ lastReq'.out # "ok" /\ idx < Len(todo))
             => (pc' = pc /\ idx' = idx + 1 /\ store' = store)]_vars

\* record q of collection c is record r with nothing changed but what the
\* reconciler may update
SameButUpdates(c, r, q) ==
    CASE c = "devices" ->
            q = [r EXCEPT !.primary_ip4 = q.primary_ip4, !.primary_ip = q.primary_ip]
      [] c = "prefixes" ->
            \/ q = r
            \/ r.description = "" /\ q = [r EXCEPT !.description = q.description]
      [] OTHER -> q = r

\* C19: a step of the incremental path deletes no entity, and changes of an
\* existing entity nothing but a device's primary address or the description
\* of a prefix that had none
C19_OnlyPrimaryAddressAndDescriptionChange ==
    [][Reconciling =>
         \A c \in Collections : \A r \in store[c] :
             \E q \in store'[c] : q.id = r.id /\ SameButUpdates(c, r, q)]_vars

\* C19 witness: the run has set the primary address of a device and has just
\* filled the description of a prefix that had none
C19_Witness ==
    /\ lastReq.coll = "prefixes" /\ lastReq.op = "update" /\ lastReq.out = "ok"
    /\ \E d \in store["devices"] : d.primary_ip4 # None
    /\ \E r \in store["prefixes"] : r.vrf # "" /\ r.description = r.vrf

\* the place of a request in the order of the kinds
Rank(req) ==
    CASE req.op \in {"none", "poll"} -> 0
      [] req.coll = "groups" -> 1
      [] req.coll \in {"contentTypes", "permissions"} -> 2
      [] req.coll = "manufacturers" -> 3
      [] req.coll = "roles" -> 4
      [] req.coll = "deviceTypes" -> 5
      [] req.coll = "sites" -> 6
      [] req.coll = "prefixes" /\ req.op \in {"list", "create"} -> 7
      [] req.coll = "devices" /\ req.op \in {"list", "create"} -> 8
      [] req.coll = "interfaces" -> 8
      [] req.coll = "ipAddresses" -> 9
      [] req.coll = "devices" /\ req.op = "update" -> 9
      [] OTHER -> 10

\* C20: within a run the requests go out one at a time and in the order
\* groups, permissions, manufacturers, roles, device types, sites, prefixes,
\* devices with their interfaces, addresses: once a request of a later kind
\* is out, no list, create or re-fetch of an earlier kind follows
C20_RequestsFollowStageOrder ==
    [][(lastReq' # lastReq /\ lastReq'.op # "none")
         => /\ lastReq'.op = "poll" \/ lastReq'.n = lastReq.n + 1
            /\ Rank(lastReq') >= Rank(lastReq)]_vars

\* C20 witness: an address is created in a run that created a prefix, a
\* device and its interface before
C20_Witness ==
    /\ ~rerun
    /\ lastReq.coll = "ipAddresses" /\ lastReq.op = "create" /\ lastReq.out = "ok"
    /\ store["groups"] # {} /\ store["sites"] # {}
    /\ store["prefixes"] # {} /\ store["interfaces"] # {}

\* the database dumps that lie in the preload directory
DirectoryDumps == {f \in PreloadDirFiles \cap snapshots : ~IsMediaArchive(f)}

\* the restore pipeline has chosen its dump and is about to run, or runs
DumpChosen == pc.stage = "preload" /\ pc.step # "select"

\* C22: with no explicit snapshot file, the dump the restore pipeline loads
\* is the one of the preload directory with the greatest modification time
C22_NewestSnapshotIsLoaded ==
    (DumpChosen /\ args.preloadBackupFile = "")
        => /\ preloadDatabaseFile \in DirectoryDumps
           /\ \A f \in DirectoryDumps : getmtime(f) <= getmtime(preloadDatabaseFile)

\* the stop-dependents step of the present run has been executed
Stopped == \E i \in 1..Len(restoreLog) : restoreLog[i][1] = "stop"

\* the restart-dependents step of the present run has been executed
Restarted == \E i \in 1..Len(restoreLog) : restoreLog[i][1] = "start"

\* C23: a run of the restore pipeline that executed the stop-dependents step
\* has executed the restart-dependents step by the time the pipeline is over
C23_StoppedDependentsAreRestarted ==
    (RestoreOver /\ Stopped) => Restarted

\* the kinds whose creation loop tests the key against the fetched collection
TestedCollections == ReadBeforeWriteCollections \ {"prefixes"}

\* the last request of each of the two invocations is a create for one and
\* the same identity key
BothCreated ==
    /\ other # <<>>
    /\ lastReq.op = "create" /\ other.lastReq.op = "create"
    /\ lastReq.coll = other.lastReq.coll /\ lastReq.key = other.lastReq.key
    /\ lastReq.coll \in TestedCollections

\* C21: two invocations on one store are not kept apart: a create goes out on
\* the strength of the invocation's own read alone, so both invocations can
\* issue a create for one key; nothing but the store's refusal of the second
\* create keeps the key unique
C21_OnlyTheStoreKeepsKeysUnique ==
    /\ (lastReq.op = "create" /\ lastReq.coll \in TestedCollections)
          => lastReq.key \notin DOMAIN preExisting
    /\ BothCreated
          => /\ lastReq.key \notin DOMAIN other.preExisting
             /\ {lastReq.out, other.lastReq.out} = {"ok", "duplicate"}
             /\ Cardinality({r \in store[lastReq.coll] :
                                KeyOf(lastReq.coll, r) = lastReq.key}) = 1

\* C21 witness: both invocations read the sites before either created the
\* site, and both have issued the create for it
C21_Witness ==
    /\ BothCreated
    /\ lastReq.coll = "sites"
    /\ lastReq.key \notin DOMAIN preExisting
    /\ lastReq.key \notin DOMAIN other.preExisting
    /\ lastReq.out = "duplicate" /\ other.lastReq.out = "ok"
====
